---------------------------- MODULE Spec2Model ----------------------------
(***************************************************************************)
(* Model of the drawing-tutorial server (src/test-nano-banana.js, the      *)
(* express application that starts at line 126).                           *)
(*                                                                         *)
(* A JavaScript string is a sequence of characters; a character is a       *)
(* one-character TLA+ string.  Literal texts of the program that no        *)
(* parsing code ever looks into are kept as one opaque element.            *)
(* JavaScript null is the empty sequence.                                  *)
(***************************************************************************)
EXTENDS Integers, Sequences, FiniteSets, TLC

VARIABLES
    pc,                        \* position of the request handler / of the function under study
    req,                       \* the request: req.file, req.body.difficulty
    res,                       \* the response sent (status 0: none yet)
    calls,                     \* external model calls issued so far, in order
    reply,                     \* outcome delivered by the external call last completed
    referenceSketchUrl,
    referenceSketchData,
    imageDescription,
    totalSteps,
    tutorialPlan,
    steps,
    previousStepsImagesData,
    i,                         \* loop index of the two for loops of the handler
    stepResult,                \* value generateStepImage returned last
    sketchAudio,
    now,                       \* Date.now(), in ticks
    disk,                      \* the files of the directory generated/
    writes,                    \* the store operations done so far
    storePc,                   \* per request: the artifact it stores next
    tutorialData,              \* browser client: the tutorial loaded
    currentStepIndex,
    prevStepBtn,               \* .disabled
    nextStepBtn,               \* .disabled
    generateBtn,               \* .disabled
    uploadSection,             \* .hidden: the class 'hidden' is on the element
    loadingElement,            \* .hidden
    tutorialSection,           \* .hidden
    stepIndicator,             \* step number the step display shows (0: none shown yet)
    alerted,                   \* message of the last alert()
    fetching                   \* requests to /api/generate-tutorial in flight

handlerVars == <<pc, req, res, calls, reply, referenceSketchUrl, referenceSketchData,
                 imageDescription, totalSteps, tutorialPlan, steps,
                 previousStepsImagesData, i, stepResult, sketchAudio>>

storeVars == <<now, disk, writes, storePc>>

clientVars == <<tutorialData, currentStepIndex, prevStepBtn, nextStepBtn, generateBtn,
                uploadSection, loadingElement, tutorialSection, stepIndicator,
                alerted, fetching>>

vars == <<handlerVars, storeVars, clientVars>>

NULL == <<>>

-----------------------------------------------------------------------------
(* Bounds of the input families.                                           *)

MaxReplyLen == 3     \* longest step-count reply, in characters
MaxHead == 2         \* free lines at the head of a plan reply
MaxTail == 9         \* repetitions of one numbered line at the end of a plan reply
MaxTick == 1         \* last value of the clock
MaxStoreSteps == 2   \* step images a request is followed through in the store study

-----------------------------------------------------------------------------
(* JavaScript string helpers.                                              *)

WhiteSpace == {" ", "\t", "\r", "\n"}

DecDigits == <<"0", "1", "2", "3", "4", "5", "6", "7", "8", "9">>
HexLower == <<"0", "1", "2", "3", "4", "5", "6", "7", "8", "9", "a", "b", "c", "d", "e", "f">>
HexUpper == <<"0", "1", "2", "3", "4", "5", "6", "7", "8", "9", "A", "B", "C", "D", "E", "F">>

IsDigit(c, radix) == \E k \in 1..radix : HexLower[k] = c \/ HexUpper[k] = c

DigitValue(c) == (CHOOSE k \in 1..16 : HexLower[k] = c \/ HexUpper[k] = c) - 1

Drop(s, n) == SubSeq(s, n + 1, Len(s))

Take(s, n) == SubSeq(s, 1, IF n < Len(s) THEN n ELSE Len(s))

RECURSIVE trimStart(_)
trimStart(s) == IF s # <<>> /\ Head(s) \in WhiteSpace THEN trimStart(Tail(s)) ELSE s

RECURSIVE trimEnd(_)
trimEnd(s) ==
    IF s # <<>> /\ s[Len(s)] \in WhiteSpace THEN trimEnd(SubSeq(s, 1, Len(s) - 1)) ELSE s

trim(s) == trimEnd(trimStart(s))

\* number of leading characters of s that are digits of the radix
RECURSIVE DigitPrefixLen(_, _)
DigitPrefixLen(s, radix) ==
    IF s # <<>> /\ IsDigit(Head(s), radix) THEN 1 + DigitPrefixLen(Tail(s), radix) ELSE 0

RECURSIVE DigitsValue(_, _)
DigitsValue(s, radix) ==
    IF s = <<>> THEN 0
    ELSE DigitsValue(SubSeq(s, 1, Len(s) - 1), radix) * radix + DigitValue(s[Len(s)])

NaN == [nan |-> TRUE, val |-> 0]

\* parseInt(string) with no radix argument
parseInt(str) ==
    LET s0 == trimStart(str)
        neg == s0 # <<>> /\ Head(s0) = "-"
        s1 == IF s0 # <<>> /\ Head(s0) \in {"+", "-"} THEN Tail(s0) ELSE s0
        hex == Len(s1) >= 2 /\ s1[1] = "0" /\ s1[2] \in {"x", "X"}
        radix == IF hex THEN 16 ELSE 10
        s2 == IF hex THEN Drop(s1, 2) ELSE s1
        z == Take(s2, DigitPrefixLen(s2, radix))
    IN  IF z = <<>> THEN NaN
        ELSE [nan |-> FALSE, val |-> (IF neg THEN -1 ELSE 1) * DigitsValue(z, radix)]

isNaN(n) == n.nan

\* the decimal digits of a natural number, as a template literal prints it
RECURSIVE DigitsOf(_)
DigitsOf(n) == IF n < 10 THEN <<DecDigits[n + 1]>> ELSE DigitsOf(n \div 10) \o <<DecDigits[(n % 10) + 1]>>

RECURSIVE joinLines(_)
joinLines(lines) ==
    IF lines = <<>> THEN <<>>
    ELSE IF Len(lines) = 1 THEN lines[1]
    ELSE lines[1] \o <<"\n">> \o joinLines(Tail(lines))

\* all sequences over S of length at most n
RECURSIVE SeqUpTo(_, _)
SeqUpTo(S, n) ==
    IF n = 0 THEN {<<>>}
    ELSE LET shorter == SeqUpTo(S, n - 1)
         IN  shorter \cup {Append(s, c) : s \in {t \in shorter : Len(t) = n - 1}, c \in S}

-----------------------------------------------------------------------------
(* Outcomes of an external model call.                                     *)

Thrown == [kind |-> "throw", text |-> <<>>]

TextReply(t) == [kind |-> "text", text |-> t]

NoReply == [kind |-> "none", text |-> <<>>]

-----------------------------------------------------------------------------
(* determineOptimalSteps                                                   *)

MinSteps == 8
MaxSteps == 20
DefaultSteps == 12

\* the bounds test left out
determineOptimalSteps_unclamped(outcome) ==
    IF outcome.kind = "throw" THEN DefaultSteps
    ELSE LET stepsNumber == parseInt(trim(outcome.text))
         IN  IF isNaN(stepsNumber) THEN DefaultSteps ELSE stepsNumber.val

determineOptimalSteps(outcome) ==
    IF outcome.kind = "throw" THEN DefaultSteps
    ELSE LET stepsNumber == parseInt(trim(outcome.text))
         IN  IF isNaN(stepsNumber) \/ stepsNumber.val < MinSteps \/ stepsNumber.val > MaxSteps
             THEN DefaultSteps
             ELSE stepsNumber.val


-----------------------------------------------------------------------------
(* generateTutorialPlan                                                    *)

Filler == <<"Continue adding details to your drawing.">>

\* `Work on part ${n} of your drawing.`
GenericStep(n) == <<"Work on part ">> \o DigitsOf(n) \o <<" of your drawing.">>

\* String.prototype.split('\n')
RECURSIVE split(_)
split(s) ==
    IF \E k \in 1..Len(s) : s[k] = "\n"
    THEN LET k == CHOOSE k \in 1..Len(s) : s[k] = "\n" /\ \A j \in 1..(k - 1) : s[j] # "\n"
         IN  <<SubSeq(s, 1, k - 1)>> \o split(Drop(s, k))
    ELSE <<s>>

\* trimmedLine.match(/^\d+\./)
matchStepLine(line) ==
    LET d == DigitPrefixLen(line, 10)
    IN  d >= 1 /\ Len(line) > d /\ line[d + 1] = "."

\* trimmedLine.replace(/^\d+\.\s*/, '')
replaceStepPrefix(line) ==
    IF matchStepLine(line) THEN trimStart(Drop(line, DigitPrefixLen(line, 10) + 1)) ELSE line

\* the loop without the test of stepText
RECURSIVE parsePlanLines_keepEmpty(_, _)
parsePlanLines_keepEmpty(lines, planSteps) ==
    IF lines = <<>> THEN planSteps
    ELSE LET trimmedLine == trim(Head(lines))
             stepText == trim(replaceStepPrefix(trimmedLine))
         IN  IF matchStepLine(trimmedLine)
             THEN parsePlanLines_keepEmpty(Tail(lines), Append(planSteps, stepText))
             ELSE parsePlanLines_keepEmpty(Tail(lines), planSteps)

\* the for loop over the lines of the reply
RECURSIVE parsePlanLines(_, _)
parsePlanLines(lines, planSteps) ==
    IF lines = <<>> THEN planSteps
    ELSE LET trimmedLine == trim(Head(lines))
             stepText == trim(replaceStepPrefix(trimmedLine))
         IN  IF matchStepLine(trimmedLine) /\ stepText # <<>>
             THEN parsePlanLines(Tail(lines), Append(planSteps, stepText))
             ELSE parsePlanLines(Tail(lines), planSteps)

\* while (planSteps.length < totalSteps) planSteps.push(filler)
RECURSIVE padPlan(_, _)
padPlan(planSteps, n) ==
    IF Len(planSteps) < n THEN padPlan(Append(planSteps, Filler), n) ELSE planSteps

\* Array.prototype.slice(0, n), n >= 0
slice0(a, n) == Take(a, n)

\* the catch block: for (let i = 0; i < totalSteps; i++) genericSteps.push(...)
genericPlan(n) == [k \in 1..n |-> GenericStep(k)]

\* the final slice left out
generateTutorialPlan_noSlice(outcome, n) ==
    IF outcome.kind = "throw" THEN genericPlan(n)
    ELSE padPlan(parsePlanLines(split(outcome.text), <<>>), n)

generateTutorialPlan(outcome, n) ==
    IF outcome.kind = "throw" THEN genericPlan(n)
    ELSE slice0(padPlan(parsePlanLines(split(outcome.text), <<>>), n), n)

-----------------------------------------------------------------------------
(* The state of a request handler before it runs.                          *)

NotReturned == [type |-> "undefined"]

NoResponse == [status |-> 0, error |-> "", details |-> "", body |-> NULL]

NoRequest == [file |-> FALSE, difficulty |-> ""]

HandlerIdle ==
    /\ res = NoResponse
    /\ calls = <<>>
    /\ referenceSketchUrl = NULL
    /\ referenceSketchData = NULL
    /\ imageDescription = NULL
    /\ tutorialPlan = <<>>
    /\ steps = <<>>
    /\ previousStepsImagesData = <<>>
    /\ i = 0
    /\ stepResult = NotReturned
    /\ sketchAudio = NULL

\* the page as loaded: let tutorialData = null; let currentStepIndex = 0
ClientIdle ==
    /\ tutorialData = [type |-> "null"]
    /\ currentStepIndex = 0
    /\ prevStepBtn = [disabled |-> TRUE]
    /\ nextStepBtn = [disabled |-> TRUE]
    /\ generateBtn = [disabled |-> FALSE]
    /\ uploadSection = [hidden |-> FALSE]
    /\ loadingElement = [hidden |-> TRUE]
    /\ tutorialSection = [hidden |-> TRUE]
    /\ stepIndicator = 0
    /\ alerted = ""
    /\ fetching = 0

\* the two requests of the store study
StoreRequests == {1, 2}

StoreIdle ==
    /\ now = 0
    /\ disk = {}
    /\ writes = {}
    /\ storePc = [r \in StoreRequests |-> 0]

-----------------------------------------------------------------------------
(* Values and results of the generation functions.                         *)

\* a JavaScript object {imageUrl, imageData}
Pair(url, data) == [type |-> "object", imageUrl |-> url, imageData |-> data]

\* the JavaScript value null, as a function result
JSNull == [type |-> "null"]

\* an async function that fulfils with v, or rejects with an error of message m
Returned(v) == [threw |-> FALSE, value |-> v, message |-> ""]
Threw(m) == [threw |-> TRUE, value |-> NULL, message |-> m]

ApiErrorMessage == "model call failed"
WriteErrorMessage == "ENOSPC: write failed"
SketchFailedMessage == "Failed to generate the reference pencil sketch."
DestructureMessage == "Cannot destructure property 'imageUrl' of null"

\* inline image data: the upload, the reference sketch, the image of step n
UploadData == <<"upload", 0>>
SketchData == <<"reference_sketch", 0>>
StepData(n) == <<"step", n>>

\* outcomes of an image-capable model call, with the outcome of the file
\* write that follows an inline image
ImageOutcomes ==
    { [kind |-> "image", save |-> "ok"],
      [kind |-> "image", save |-> "fail"],
      [kind |-> "noimage", save |-> "none"],
      [kind |-> "malformed", save |-> "none"],
      [kind |-> "throw", save |-> "none"] }

\* saveGeneratedImage: the URL of the file written (the Date.now() part of the
\* name and the extension are left out), or the write error re-thrown
saveGeneratedImage(save, name, n) ==
    IF save = "fail" THEN Threw(WriteErrorMessage)
    ELSE Returned(<<"/generated", name, n>>)

-----------------------------------------------------------------------------
(* generatePencilSketchFromImage                                           *)

\* the outer catch re-throwing instead of returning the null pair
generatePencilSketchFromImage_rethrow(outcome) ==
    IF outcome.kind \in {"throw", "malformed"} THEN Threw(ApiErrorMessage)
    ELSE IF outcome.kind = "noimage" THEN Returned(Pair(NULL, NULL))
    ELSE LET saved == saveGeneratedImage(outcome.save, "reference_sketch", 0)
         IN  IF saved.threw THEN Threw(saved.message)
             ELSE Returned(Pair(saved.value, SketchData))

generatePencilSketchFromImage(outcome) ==
    IF outcome.kind = "throw" THEN Returned(Pair(NULL, NULL))
    \* response.candidates[0] of a reply without candidates: TypeError, caught
    ELSE IF outcome.kind = "malformed" THEN Returned(Pair(NULL, NULL))
    ELSE IF outcome.kind = "noimage" THEN Returned(Pair(NULL, NULL))
    ELSE LET saved == saveGeneratedImage(outcome.save, "reference_sketch", 0)
         IN  IF saved.threw THEN Returned(Pair(NULL, NULL))
             ELSE Returned(Pair(saved.value, SketchData))

-----------------------------------------------------------------------------
(* analyzeImage                                                            *)

Description == <<"A cat sitting on a windowsill.">>

AnalyzeOutcomes == {TextReply(Description), Thrown}

\* a fallback description instead of the re-throw
analyzeImage_fallback(outcome) ==
    IF outcome.kind = "throw" THEN Returned(<<"An image.">>)
    ELSE Returned(outcome.text)

analyzeImage(outcome) ==
    IF outcome.kind = "throw" THEN Threw(ApiErrorMessage)
    ELSE Returned(outcome.text)

-----------------------------------------------------------------------------
(* generateStepImage                                                       *)

stepImagePrompt(stepDescription, stepNumber, total) ==
    <<"STEP ">> \o DigitsOf(stepNumber) \o <<" of ">> \o DigitsOf(total)
        \o <<" ONLY focus on: ">> \o stepDescription

\* every retained previous image is sent
stepImageContent_allPrevious(stepDescription, referenceImageData, previous, stepNumber, total) ==
    [prompt |-> stepImagePrompt(stepDescription, stepNumber, total),
     images |-> <<referenceImageData>> \o previous]

\* the oldest retained image is sent instead of the newest
stepImageContent_oldest(stepDescription, referenceImageData, previous, stepNumber, total) ==
    [prompt |-> stepImagePrompt(stepDescription, stepNumber, total),
     images |-> IF Len(previous) > 0
                THEN <<referenceImageData, previous[1]>>
                ELSE <<referenceImageData>>]

\* no previous image is ever sent
stepImageContent_noPrevious(stepDescription, referenceImageData, previous, stepNumber, total) ==
    [prompt |-> stepImagePrompt(stepDescription, stepNumber, total),
     images |-> <<referenceImageData>>]

\* const content = [imagePrompt, {inlineData: referenceImageData}] and the push
\* of the last previous image
stepImageContent(stepDescription, referenceImageData, previous, stepNumber, total) ==
    [prompt |-> stepImagePrompt(stepDescription, stepNumber, total),
     images |-> IF Len(previous) > 0
                THEN <<referenceImageData, previous[Len(previous)]>>
                ELSE <<referenceImageData>>]

\* the error of the file write not caught next to the write: it reaches the outer catch
generateStepImage_savePropagates(outcome, stepNumber) ==
    IF outcome.kind = "throw" THEN JSNull
    ELSE IF outcome.kind = "image"
    THEN LET saved == saveGeneratedImage(outcome.save, "step", stepNumber)
         IN  IF saved.threw THEN JSNull
             ELSE Pair(saved.value, StepData(stepNumber))
    ELSE Pair(NULL, NULL)

\* what generateStepImage gives back for an outcome of its model call
generateStepImage(outcome, stepNumber) ==
    IF outcome.kind = "throw" THEN JSNull
    ELSE IF outcome.kind = "image"
    THEN LET saved == saveGeneratedImage(outcome.save, "step", stepNumber)
         IN  IF saved.threw THEN Pair(NULL, NULL)
             ELSE Pair(saved.value, StepData(stepNumber))
    ELSE Pair(NULL, NULL)

-----------------------------------------------------------------------------
(* generateAudioNarration                                                  *)

\* the stub returning nothing
generateAudioNarration_null(text) == NULL

generateAudioNarration(text) == <<"audio_placeholder.mp3">>

-----------------------------------------------------------------------------
(* The handler of POST /api/generate-tutorial.  One action is one run of   *)
(* the handler between two awaits.                                         *)

UNDEFINED == "<undefined>"       \* req.body.difficulty absent

Falsy(v) == v \in {UNDEFINED, ""}

Requests == [file : BOOLEAN, difficulty : {UNDEFINED, "", "beginner"}]

Call(fn, step, content) ==
    [fn |-> fn, step |-> step, prompt |-> content.prompt, images |-> content.images,
     outcome |-> "pending"]

\* the next call issued without awaiting the pending one
Completed_notAwaited(log, outcome) == log

\* the pending call, the last one of the log, has completed
Completed(log, outcome) ==
    [log EXCEPT ![Len(log)].outcome = IF outcome.kind = "throw" THEN "threw" ELSE "returned"]

Respond(status, error, details, body) ==
    [status |-> status, error |-> error, details |-> details, body |-> body]

\* the catch block logging the error without answering
Respond500_silent(message) == NoResponse

\* the catch block of the handler
Respond500(message) == Respond(500, "Failed to generate tutorial", message, NULL)

\* the test of the difficulty left out
validateInput_noDifficultyCheck(request) ==
    IF ~request.file THEN Respond(400, "No image provided", "", NULL)
    ELSE NoResponse

validateInput(request) ==
    IF ~request.file THEN Respond(400, "No image provided", "", NULL)
    ELSE IF Falsy(request.difficulty) THEN Respond(400, "Difficulty level is required", "", NULL)
    ELSE NoResponse

SketchCall(request) ==
    Call("generatePencilSketchFromImage", 0,
         [prompt |-> <<"Convert the uploaded image into a pencil sketch: ", request.difficulty>>,
          images |-> <<UploadData>>])

AnalyzeCall ==
    Call("analyzeImage", 0,
         [prompt |-> <<"Describe the main subject of this image in detail">>,
          images |-> <<UploadData>>])

StepsCall(data, description) ==
    Call("determineOptimalSteps", 0,
         [prompt |-> <<"Return ONLY the number of steps. Image Description: ">> \o description,
          images |-> <<data>>])

PlanCall(data, description, total) ==
    Call("generateTutorialPlan", 0,
         [prompt |-> <<"Create a structured plan in ">> \o DigitsOf(total)
                       \o <<" steps. Image Description: ">> \o description,
          images |-> <<data>>])

\* the plan indexed one entry too early
stepDescriptionAt_offByOne(plan, idx) ==
    IF idx >= 1 /\ idx <= Len(plan) /\ plan[idx] # <<>> THEN plan[idx] ELSE GenericStep(idx + 1)

\* tutorialPlan[i] || `Work on part ${currentStepNumber} of your drawing.`
stepDescriptionAt(plan, idx) ==
    IF idx + 1 <= Len(plan) /\ plan[idx + 1] # <<>> THEN plan[idx + 1] ELSE GenericStep(idx + 1)

StepCall(plan, data, previous, idx, total) ==
    Call("generateStepImage", idx + 1,
         stepImageContent(stepDescriptionAt(plan, idx), data, previous, idx + 1, total))

\* replies of the step-count and plan calls within a request
RequestStepsOutcomes ==
    { TextReply(<<"8">>), TextReply(<<" ", "9", "\n">>), TextReply(<<"2", "5">>), Thrown }

RequestPlanOutcomes ==
    { TextReply(joinLines(<<<<"2", ".", " ", "B">>, <<"1", ".", " ", "A">>>>)),
      TextReply(joinLines([k \in 1..10 |-> <<"7", ".", " ", "T">>])),
      Thrown }

Init ==
    /\ HandlerIdle
    /\ StoreIdle
    /\ ClientIdle
    /\ pc = "start"
    /\ req \in Requests
    /\ reply = NoReply
    /\ totalSteps = 0

\* validation, then generatePencilSketchFromImage up to its model call
Start ==
    /\ pc = "start"
    /\ LET answer == validateInput(req)
       IN  IF answer.status # 0
           THEN /\ res' = answer
                /\ pc' = "done"
                /\ calls' = calls
           ELSE /\ calls' = Append(calls, SketchCall(req))
                /\ pc' = "sketch_wait"
                /\ res' = res
    /\ UNCHANGED <<storeVars, clientVars>>
    /\ UNCHANGED <<req, reply, referenceSketchUrl, referenceSketchData, imageDescription,
                   totalSteps, tutorialPlan, steps, previousStepsImagesData, i,
                   stepResult, sketchAudio>>

\* the sketch call completes; the check of the URL; analyzeImage up to its call
SketchReturn(outcome) ==
    /\ pc = "sketch_wait"
    /\ reply' = outcome
    /\ LET r == generatePencilSketchFromImage(outcome)
       IN  IF r.threw \/ r.value.imageUrl = NULL
           THEN /\ res' = Respond500(IF r.threw THEN r.message ELSE SketchFailedMessage)
                /\ pc' = "done"
                /\ calls' = Completed(calls, outcome)
                /\ UNCHANGED <<referenceSketchUrl, referenceSketchData>>
           ELSE /\ referenceSketchUrl' = r.value.imageUrl
                /\ referenceSketchData' = r.value.imageData
                /\ calls' = Append(Completed(calls, outcome), AnalyzeCall)
                /\ pc' = "analyze_wait"
                /\ res' = res
    /\ UNCHANGED <<storeVars, clientVars>>
    /\ UNCHANGED <<req, imageDescription, totalSteps, tutorialPlan, steps,
                   previousStepsImagesData, i, stepResult, sketchAudio>>

\* the analysis call completes; determineOptimalSteps up to its call
AnalyzeReturn(outcome) ==
    /\ pc = "analyze_wait"
    /\ reply' = outcome
    /\ LET r == analyzeImage(outcome)
       IN  IF r.threw
           THEN /\ res' = Respond500(r.message)
                /\ pc' = "done"
                /\ calls' = Completed(calls, outcome)
                /\ imageDescription' = imageDescription
           ELSE /\ imageDescription' = r.value
                /\ calls' = Append(Completed(calls, outcome),
                                   StepsCall(referenceSketchData, r.value))
                /\ pc' = "steps_wait"
                /\ res' = res
    /\ UNCHANGED <<storeVars, clientVars>>
    /\ UNCHANGED <<req, referenceSketchUrl, referenceSketchData, totalSteps, tutorialPlan,
                   steps, previousStepsImagesData, i, stepResult, sketchAudio>>

\* the step-count call completes; generateTutorialPlan up to its call
StepsReturn(outcome) ==
    /\ pc = "steps_wait"
    /\ reply' = outcome
    /\ totalSteps' = determineOptimalSteps(outcome)
    /\ calls' = Append(Completed(calls, outcome),
                       PlanCall(referenceSketchData, imageDescription, totalSteps'))
    /\ pc' = "plan_wait"
    /\ UNCHANGED <<storeVars, clientVars>>
    /\ UNCHANGED <<req, res, referenceSketchUrl, referenceSketchData, imageDescription,
                   tutorialPlan, steps, previousStepsImagesData, i, stepResult, sketchAudio>>

\* the plan call completes; the first pass of the step loop up to its call
PlanReturn(outcome) ==
    /\ pc = "plan_wait"
    /\ reply' = outcome
    /\ tutorialPlan' = generateTutorialPlan(outcome, totalSteps)
    /\ steps' = <<>>
    /\ previousStepsImagesData' = <<>>
    /\ i' = 0
    /\ IF 0 < totalSteps
       THEN /\ calls' = Append(Completed(calls, outcome),
                               StepCall(tutorialPlan', referenceSketchData, <<>>, 0, totalSteps))
            /\ pc' = "step_wait"
       ELSE /\ calls' = Completed(calls, outcome)
            /\ pc' = "overview_wait"
    /\ UNCHANGED <<storeVars, clientVars>>
    /\ UNCHANGED <<req, res, referenceSketchUrl, referenceSketchData, imageDescription,
                   totalSteps, stepResult, sketchAudio>>

\* the push done also when the step gave no image
pushRecent_always(previous, imageData) ==
    LET pushed == Append(previous, imageData)
    IN  IF Len(pushed) > 2 THEN Tail(pushed) ELSE pushed

\* pop() in place of shift(): the newest image is dropped
pushRecent_pop(previous, imageData) ==
    IF imageData # NULL
    THEN LET pushed == Append(previous, imageData)
         IN  IF Len(pushed) > 2 THEN SubSeq(pushed, 1, Len(pushed) - 1) ELSE pushed
    ELSE previous

\* previousStepsImagesData.push(imageData) and the shift beyond two entries
pushRecent(previous, imageData) ==
    IF imageData # NULL
    THEN LET pushed == Append(previous, imageData)
         IN  IF Len(pushed) > 2 THEN Tail(pushed) ELSE pushed
    ELSE previous

\* a step without image is tried again instead of being recorded
StepImageReturn_retry(outcome) ==
    /\ pc = "step_wait"
    /\ reply' = outcome
    /\ stepResult' = generateStepImage(outcome, i + 1)
    /\ IF stepResult'.type = "null"
       THEN /\ res' = Respond500(DestructureMessage)
            /\ pc' = "done"
            /\ calls' = Completed(calls, outcome)
            /\ UNCHANGED <<steps, previousStepsImagesData, i>>
       ELSE IF stepResult'.imageUrl = NULL
       THEN /\ calls' = Append(Completed(calls, outcome),
                               StepCall(tutorialPlan, referenceSketchData,
                                        previousStepsImagesData, i, totalSteps))
            /\ pc' = "step_wait"
            /\ UNCHANGED <<res, steps, previousStepsImagesData, i>>
       ELSE /\ steps' = Append(steps, [step |-> i + 1,
                                       description |-> stepDescriptionAt(tutorialPlan, i),
                                       imageUrl |-> stepResult'.imageUrl,
                                       audio |-> NULL])
            /\ previousStepsImagesData' = pushRecent(previousStepsImagesData, stepResult'.imageData)
            /\ i' = i + 1
            /\ res' = res
            /\ IF i + 1 < totalSteps
               THEN /\ calls' = Append(Completed(calls, outcome),
                                       StepCall(tutorialPlan, referenceSketchData,
                                                previousStepsImagesData', i + 1, totalSteps))
                    /\ pc' = "step_wait"
               ELSE /\ calls' = Completed(calls, outcome)
                    /\ pc' = "overview_wait"
    /\ UNCHANGED <<storeVars, clientVars>>
    /\ UNCHANGED <<req, referenceSketchUrl, referenceSketchData, imageDescription,
                   totalSteps, tutorialPlan, sketchAudio>>

\* the step-image call of step i+1 completes; the destructuring, the step
\* record, the window, and the next pass of the loop up to its call
StepImageReturn(outcome) ==
    /\ pc = "step_wait"
    /\ reply' = outcome
    /\ stepResult' = generateStepImage(outcome, i + 1)
    /\ IF stepResult'.type = "null"
       THEN /\ res' = Respond500(DestructureMessage)
            /\ pc' = "done"
            /\ calls' = Completed(calls, outcome)
            /\ UNCHANGED <<steps, previousStepsImagesData, i>>
       ELSE /\ steps' = Append(steps, [step |-> i + 1,
                                       description |-> stepDescriptionAt(tutorialPlan, i),
                                       imageUrl |-> stepResult'.imageUrl,
                                       audio |-> NULL])
            /\ previousStepsImagesData' = pushRecent(previousStepsImagesData, stepResult'.imageData)
            /\ i' = i + 1
            /\ res' = res
            /\ IF i + 1 < totalSteps
               THEN /\ calls' = Append(Completed(calls, outcome),
                                       StepCall(tutorialPlan, referenceSketchData,
                                                previousStepsImagesData', i + 1, totalSteps))
                    /\ pc' = "step_wait"
               ELSE /\ calls' = Completed(calls, outcome)
                    /\ pc' = "overview_wait"
    /\ UNCHANGED <<storeVars, clientVars>>
    /\ UNCHANGED <<req, referenceSketchUrl, referenceSketchData, imageDescription,
                   totalSteps, tutorialPlan, sketchAudio>>

TutorialBody(stepRecords, audio) ==
    [sketch |-> [imageUrl |-> referenceSketchUrl,
                 description |-> imageDescription,
                 audio |-> audio],
     steps |-> stepRecords]

\* the narration of the description is done; the first pass of the audio loop
OverviewReturn ==
    /\ pc = "overview_wait"
    /\ sketchAudio' = generateAudioNarration(imageDescription)
    /\ i' = 0
    /\ IF 0 < Len(steps)
       THEN /\ pc' = "narration_wait"
            /\ res' = res
       ELSE /\ pc' = "done"
            /\ res' = Respond(200, "", "", TutorialBody(steps, sketchAudio'))
    /\ UNCHANGED <<storeVars, clientVars>>
    /\ UNCHANGED <<req, calls, reply, referenceSketchUrl, referenceSketchData,
                   imageDescription, totalSteps, tutorialPlan, steps,
                   previousStepsImagesData, stepResult>>

\* the narration of step i+1 is done; the next pass, or res.json
NarrationReturn ==
    /\ pc = "narration_wait"
    /\ steps' = [steps EXCEPT ![i + 1].audio = generateAudioNarration(steps[i + 1].description)]
    /\ i' = i + 1
    /\ IF i + 1 < Len(steps)
       THEN /\ pc' = "narration_wait"
            /\ res' = res
       ELSE /\ pc' = "done"
            /\ res' = Respond(200, "", "", TutorialBody(steps', sketchAudio))
    /\ UNCHANGED <<storeVars, clientVars>>
    /\ UNCHANGED <<req, calls, reply, referenceSketchUrl, referenceSketchData,
                   imageDescription, totalSteps, tutorialPlan, previousStepsImagesData,
                   stepResult, sketchAudio>>

Next ==
    \/ Start
    \/ \E outcome \in ImageOutcomes : SketchReturn(outcome)
    \/ \E outcome \in AnalyzeOutcomes : AnalyzeReturn(outcome)
    \/ \E outcome \in RequestStepsOutcomes : StepsReturn(outcome)
    \/ \E outcome \in RequestPlanOutcomes : PlanReturn(outcome)
    \/ \E outcome \in ImageOutcomes : StepImageReturn(outcome)
    \/ OverviewReturn
    \/ NarrationReturn

Spec == Init /\ [][Next]_vars

-----------------------------------------------------------------------------
(* SpecEstimate: determineOptimalSteps applied to every short reply.       *)

StepsChars == {"0", "1", "2", "8", "9", " ", "-", "x", "a", "\n"}

StepsReplies == {TextReply(t) : t \in SeqUpTo(StepsChars, MaxReplyLen)} \cup {Thrown}

InitEstimate ==
    /\ HandlerIdle
    /\ StoreIdle
    /\ ClientIdle
    /\ pc = "estimate_called"
    /\ req = NoRequest
    /\ reply \in StepsReplies
    /\ totalSteps = 0

EstimateReturn ==
    /\ pc = "estimate_called"
    /\ totalSteps' = determineOptimalSteps(reply)
    /\ pc' = "estimate_done"
    /\ UNCHANGED <<storeVars, clientVars>>
    /\ UNCHANGED <<req, res, calls, reply, referenceSketchUrl, referenceSketchData,
                   imageDescription, tutorialPlan, steps, previousStepsImagesData,
                   i, stepResult, sketchAudio>>

NextEstimate == EstimateReturn

SpecEstimate == InitEstimate /\ [][NextEstimate]_vars

-----------------------------------------------------------------------------
(* SpecPlan: generateTutorialPlan applied to a family of replies, for      *)
(* every step count determineOptimalSteps can return.                      *)

PlanLines ==
    { <<"1", ".", " ", "A">>,
      <<" ", "2", ".", "B", " ">>,
      <<"3", ".", " ">>,
      <<"A">>,
      <<"1", "0", ".", "C", " ", "D">> }

TailLine == <<"7", ".", " ", "T">>

FootLines == { <<"9", ".", "F">>, <<"4", ".">> }

PlanTexts ==
    { joinLines(head \o [k \in 1..n |-> TailLine] \o foot) :
        head \in SeqUpTo(PlanLines, MaxHead), n \in 0..MaxTail, foot \in SeqUpTo(FootLines, 1) }

PlanReplies == {TextReply(t) : t \in PlanTexts} \cup {Thrown}

InitPlan ==
    /\ HandlerIdle
    /\ StoreIdle
    /\ ClientIdle
    /\ pc = "plan_called"
    /\ req = NoRequest
    /\ reply \in PlanReplies
    /\ totalSteps \in MinSteps..MaxSteps

PlanReturnOnly ==
    /\ pc = "plan_called"
    /\ tutorialPlan' = generateTutorialPlan(reply, totalSteps)
    /\ pc' = "plan_done"
    /\ UNCHANGED <<storeVars, clientVars>>
    /\ UNCHANGED <<req, res, calls, reply, referenceSketchUrl, referenceSketchData,
                   imageDescription, totalSteps, steps, previousStepsImagesData,
                   i, stepResult, sketchAudio>>

NextPlan == PlanReturnOnly

SpecPlan == InitPlan /\ [][NextPlan]_vars

-----------------------------------------------------------------------------
(* C6: for every reply of the step-count call, and when the call throws,   *)
(* determineOptimalSteps returns an integer in 8..20: the parsed integer   *)
(* when the trimmed reply parses to a value in 8..20, and exactly 12 when  *)
(* it does not parse or parses to a value outside 8..20.                   *)
C6_EstimateClamped ==
    pc = "estimate_done" =>
        /\ totalSteps \in 8..20
        /\ reply.kind = "throw" => totalSteps = 12
        /\ reply.kind = "text" =>
             LET n == parseInt(trim(reply.text))
             IN  /\ (~n.nan /\ n.val \in 8..20) => totalSteps = n.val
                 /\ (n.nan \/ n.val \notin 8..20) => totalSteps = 12

\* a reply that parses to an out-of-range value has been replaced by 12
C6_Witness ==
    /\ pc = "estimate_done"
    /\ reply.kind = "text"
    /\ ~parseInt(trim(reply.text)).nan
    /\ parseInt(trim(reply.text)).val > 20
    /\ totalSteps = 12

-----------------------------------------------------------------------------
(* C7: for every model reply and when the plan call throws, the plan       *)
(* returned has exactly totalSteps entries, none of them empty.            *)
C7_PlanLengthNonEmpty ==
    pc = "plan_done" =>
        /\ Len(tutorialPlan) = totalSteps
        /\ \A k \in 1..Len(tutorialPlan) : tutorialPlan[k] # <<>>

\* a reply with more numbered lines than steps, one of them with empty text
C7_Witness ==
    /\ pc = "plan_done"
    /\ reply.kind = "text"
    /\ Len(split(reply.text)) > totalSteps + 1
    /\ \E k \in 1..Len(split(reply.text)) : split(reply.text)[k] = <<"3", ".", " ">>
    /\ Len(tutorialPlan) = totalSteps

-----------------------------------------------------------------------------
(* C8: when the plan call succeeds the plan is the first totalSteps        *)
(* elements of the non-empty numbered-line texts, in the order of the      *)
(* reply, followed by copies of the filler.                                *)

\* the text of a line after its numeral, or <<>> when the line is not numbered
NumberedText(line) ==
    LET t == trim(line)
        d == DigitPrefixLen(t, 10)
    IN  IF d >= 1 /\ Len(t) > d /\ t[d + 1] = "." THEN trim(Drop(t, d + 1)) ELSE <<>>

ExpectedPlan(text, n) ==
    LET lines == split(text)
        texts == SelectSeq([k \in 1..Len(lines) |-> NumberedText(lines[k])], LAMBDA t : t # <<>>)
    IN  [k \in 1..n |-> IF k <= Len(texts) THEN texts[k] ELSE Filler]

C8_PlanIsPrefixOfParsedThenFiller ==
    (pc = "plan_done" /\ reply.kind = "text") =>
        tutorialPlan = ExpectedPlan(reply.text, totalSteps)

\* numerals out of order are kept in reply order and the entries beyond totalSteps are dropped
C8_Witness ==
    /\ pc = "plan_done"
    /\ reply.kind = "text"
    /\ totalSteps = 8
    /\ Len(parsePlanLines(split(reply.text), <<>>)) > 8
    /\ tutorialPlan[1] = <<"B">>
    /\ tutorialPlan[2] = <<"A">>
    /\ tutorialPlan[8] = <<"T">>

\* fewer parsed entries than steps: the tail is filler
C8_WitnessPadded ==
    /\ pc = "plan_done"
    /\ reply.kind = "text"
    /\ Len(parsePlanLines(split(reply.text), <<>>)) = 2
    /\ tutorialPlan[2] # Filler
    /\ \A k \in 3..totalSteps : tutorialPlan[k] = Filler

-----------------------------------------------------------------------------
(* Claims about the request handler, checked under Spec.                   *)

\* the sketch call has completed without leaving a reference sketch
SketchFailed ==
    /\ Len(calls) >= 1
    /\ calls[1].outcome # "pending"
    /\ referenceSketchUrl = NULL

(* C1: a request ends in Failure (400 or 500) only if the upload is        *)
(* missing, the difficulty is missing or the reference sketch is null;     *)
(* for every other combination of outcomes of the later calls it ends in   *)
(* Success (200).                                                          *)
C1_OnlyThreeFatalPoints ==
    pc = "done" =>
        IF ~req.file \/ Falsy(req.difficulty) \/ SketchFailed
        THEN res.status \in {400, 500}
        ELSE res.status = 200

(* C2: for every outcome of the image call of a step (inline image, no     *)
(* inline image, the call throwing) generateStepImage returns a pair       *)
(* {imageUrl, imageData}, never a value that cannot be taken apart.        *)
C2_StepResultIsPair ==
    stepResult.type \in {"undefined", "object"}

(* C3: a request without a file is answered 400 "No image provided", a     *)
(* request with a file and no difficulty is answered 400, and in both      *)
(* cases no external model call is ever issued.                            *)
C3_ValidationBeforeAnyCall ==
    (~req.file \/ Falsy(req.difficulty)) =>
        /\ calls = <<>>
        /\ pc \in {"start", "done"}
        /\ pc = "done" => res.status = 400
        /\ (pc = "done" /\ ~req.file) => res.error = "No image provided"

C3_Witness ==
    /\ pc = "done"
    /\ req.file
    /\ Falsy(req.difficulty)
    /\ res.status = 400
    /\ calls = <<>>

(* C4: when the sketch reply holds no inline image, or the sketch call     *)
(* fails, generatePencilSketchFromImage returns the null pair instead of   *)
(* throwing and the handler answers 500 without issuing the analysis,      *)
(* step-count, plan or any step-image call.                                *)
C4_NullSketchIsFatal ==
    /\ (Len(calls) = 1 /\ calls[1].outcome # "pending"
            /\ reply.kind \in {"noimage", "malformed", "throw"}) => SketchFailed
    /\ SketchFailed =>
        /\ pc = "done"
        /\ res.status = 500
        /\ res.details = SketchFailedMessage
        /\ Len(calls) = 1
        /\ calls[1].fn = "generatePencilSketchFromImage"

C4_Witness ==
    /\ pc = "done"
    /\ reply.kind = "noimage"
    /\ SketchFailed
    /\ res.status = 500

(* C5: when the analysis call fails analyzeImage re-throws and the handler *)
(* answers 500, with no description and without issuing the step-count,    *)
(* plan or step-image calls.                                               *)
C5_AnalysisFailureIsFatal ==
    (Len(calls) >= 2 /\ calls[2].outcome = "threw") =>
        /\ calls[2].fn = "analyzeImage"
        /\ pc = "done"
        /\ res.status = 500
        /\ imageDescription = NULL
        /\ Len(calls) = 2

C5_Witness ==
    /\ pc = "done"
    /\ Len(calls) = 2
    /\ calls[2].fn = "analyzeImage"
    /\ calls[2].outcome = "threw"
    /\ res.status = 500

(* C9: when the plan call throws the request still ends in Success (200)   *)
(* and the response has exactly totalSteps steps, step k described by      *)
(* "Work on part k of your drawing.".                                      *)
C9_PlanThrowStillSucceeds ==
    (pc = "done" /\ Len(calls) >= 4 /\ calls[4].outcome = "threw") =>
        /\ res.status = 200
        /\ Len(res.body.steps) = totalSteps
        /\ \A k \in 1..totalSteps : res.body.steps[k].description = GenericStep(k)

(* C10: the input of every step-image call holds the prompt, the           *)
(* reference sketch data and at most one previously generated step image.  *)
IsStepData(d) == \E n \in 1..MaxSteps : d = StepData(n)

C10_AtMostOnePreviousImage ==
    \A k \in 1..Len(calls) :
        calls[k].fn = "generateStepImage" =>
            /\ calls[k].prompt # <<>>
            /\ Len(calls[k].images) \in {1, 2}
            /\ calls[k].images[1] = referenceSketchData
            /\ Len(calls[k].images) = 2 => IsStepData(calls[k].images[2])

\* a step-image call issued while the window holds two earlier images
C10_Witness ==
    /\ pc = "step_wait"
    /\ Len(previousStepsImagesData) = 2
    /\ calls[Len(calls)].fn = "generateStepImage"
    /\ calls[Len(calls)].step >= 3
    /\ Len(calls[Len(calls)].images) = 2

-----------------------------------------------------------------------------
\* the steps before step n that produced an image
Producers(n) == {j \in 1..(n - 1) : j <= Len(steps) /\ steps[j].imageUrl # NULL}

Max(S) == CHOOSE m \in S : \A j \in S : j <= m

-----------------------------------------------------------------------------
(* C12: in every Success result the steps array has exactly totalSteps     *)
(* records, and record k has step number k and the description plan[k].    *)
C12_StepsMatchPlan ==
    res.status = 200 =>
        /\ totalSteps \in 8..20
        /\ Len(res.body.steps) = totalSteps
        /\ Len(tutorialPlan) = totalSteps
        /\ \A k \in 1..totalSteps :
              /\ res.body.steps[k].step = k
              /\ res.body.steps[k].description = tutorialPlan[k]

C12_Witness ==
    /\ res.status = 200
    /\ totalSteps = 9
    /\ Len(res.body.steps) = 9
    /\ res.body.steps[2].description = <<"A">>

-----------------------------------------------------------------------------
\* the call completed last delivered an inline image and the file write failed
SaveFailed == reply.kind = "image" /\ reply.save = "fail"

(* C13, as stated: an I/O failure while saving an artifact, the reference  *)
(* sketch or a step image, aborts the request with a 500 response.         *)
C13_SaveFailureAborts ==
    SaveFailed => (pc = "done" /\ res.status = 500)

(* C13, amended: an I/O failure while saving the reference sketch aborts   *)
(* the request with a 500 response; an I/O failure while saving a step     *)
(* image is caught by generateStepImage, which returns the null pair: the  *)
(* step is recorded with a null image URL and the request goes on.         *)
C13_SaveFailureSketchFatalStepNot ==
    SaveFailed =>
        IF Len(calls) = 1
        THEN /\ pc = "done"
             /\ res.status = 500
             /\ referenceSketchUrl = NULL
        ELSE /\ Len(calls) >= 5
             /\ stepResult.type = "object"
             /\ steps # <<>>
             /\ steps[Len(steps)].imageUrl = NULL
             /\ res.status \in {0, 200}
             /\ pc = "done" => res.status = 200

\* the write of the last step's image failed and the request succeeded
C13_Witness ==
    /\ SaveFailed
    /\ Len(calls) >= 5
    /\ pc = "done"
    /\ res.status = 200
    /\ res.body.steps[Len(steps)].imageUrl = NULL

-----------------------------------------------------------------------------
(* SpecStore: the store operations of two requests running interleaved.    *)
(* A request stores its reference sketch, then the images of its steps in  *)
(* order; each file name takes the value of the clock at that moment.      *)

\* the switch of saveGeneratedImage
extensionOf(mimeType) ==
    CASE mimeType = "image/png" -> ".png"
      [] mimeType \in {"image/jpeg", "image/jpg"} -> ".jpg"
      [] mimeType = "image/gif" -> ".gif"
      [] OTHER -> ".png"

\* `reference_sketch_${Date.now()}`
sketchFileName(ts) == <<"reference_sketch_">> \o DigitsOf(ts)

\* the step number left out of the name
stepFileName_noStepNumber(stepNumber, ts) == <<"step_">> \o DigitsOf(ts)

\* `step_${stepNumber}_${Date.now()}`
stepFileName(stepNumber, ts) == <<"step_">> \o DigitsOf(stepNumber) \o <<"_">> \o DigitsOf(ts)

\* path.join('generated', `${filename}${extension}`)
storePath(filename, mimeType) == <<"generated/">> \o filename \o <<extensionOf(mimeType)>>

StoreMimeTypes == {"image/jpeg", "image/webp"}

InitStore ==
    /\ HandlerIdle
    /\ StoreIdle
    /\ ClientIdle
    /\ pc = "store"
    /\ req = NoRequest
    /\ reply = NoReply
    /\ totalSteps = 0

Tick ==
    /\ now < MaxTick
    /\ now' = now + 1
    /\ UNCHANGED <<disk, writes, storePc>>
    /\ UNCHANGED <<handlerVars, clientVars>>

\* request r stores the inline image its model call returned
StoreSave(r, mimeType) ==
    /\ storePc[r] <= MaxStoreSteps
    /\ LET k == storePc[r]
           filename == IF k = 0 THEN sketchFileName(now) ELSE stepFileName(k, now)
           path == storePath(filename, mimeType)
       IN  /\ disk' = {f \in disk : f.path # path} \cup {[path |-> path, data |-> <<r, k>>]}
           /\ writes' = writes \cup {[owner |-> r, step |-> k, tick |-> now,
                                      extension |-> extensionOf(mimeType), path |-> path]}
    /\ storePc' = [storePc EXCEPT ![r] = @ + 1]
    /\ UNCHANGED now
    /\ UNCHANGED <<handlerVars, clientVars>>

\* the model call of request r gives no image: without a reference sketch the
\* request ends, without a step image it goes on to the next step
StoreNoImage(r) ==
    /\ storePc[r] <= MaxStoreSteps
    /\ storePc' = [storePc EXCEPT ![r] = IF @ = 0 THEN MaxStoreSteps + 1 ELSE @ + 1]
    /\ UNCHANGED <<now, disk, writes>>
    /\ UNCHANGED <<handlerVars, clientVars>>

NextStore ==
    \/ Tick
    \/ \E r \in StoreRequests, mimeType \in StoreMimeTypes : StoreSave(r, mimeType)
    \/ \E r \in StoreRequests : StoreNoImage(r)

SpecStore == InitStore /\ [][NextStore]_vars

\* the other request stored the same artifact name in the same tick
Collides(w, v) == w.owner # v.owner /\ w.path = v.path

\* what the file of a store operation holds now
OnDisk(w) == {f.data : f \in {g \in disk : g.path = w.path}}

SameArtifactSameTick(w, v) ==
    w.step = v.step /\ w.tick = v.tick /\ w.extension = v.extension

-----------------------------------------------------------------------------
(* SpecFair: every external call eventually returns or throws, and every   *)
(* continuation of the handler that can run eventually runs.               *)
(* The plan stage is stated as "the handler does not wait for the plan     *)
(* call forever".                                                          *)
SpecFair ==
    /\ Spec
    /\ WF_vars(Start)
    /\ WF_vars(\E outcome \in ImageOutcomes : SketchReturn(outcome))
    /\ WF_vars(\E outcome \in AnalyzeOutcomes : AnalyzeReturn(outcome))
    /\ WF_vars(\E outcome \in RequestStepsOutcomes : StepsReturn(outcome))
    /\ []<>(pc # "plan_wait")
    /\ WF_vars(\E outcome \in ImageOutcomes : StepImageReturn(outcome))
    /\ WF_vars(OverviewReturn)
    /\ WF_vars(NarrationReturn)

\* the position of a stage in the chain of the handler
StageRank(p) ==
    CASE p = "start" -> 0
      [] p = "sketch_wait" -> 1
      [] p = "analyze_wait" -> 2
      [] p = "steps_wait" -> 3
      [] p = "plan_wait" -> 4
      [] p = "step_wait" -> 5
      [] p = "overview_wait" -> 6
      [] p = "narration_wait" -> 7
      [] p = "done" -> 8

(* C15: every request eventually reaches one terminal state, Success or    *)
(* Failure, and sends exactly one response, at that moment; every step of  *)
(* the handler moves to a later stage, or to the next pass of the same     *)
(* loop, never back.                                                       *)
C15_OneTerminalStateNoWayBack ==
    /\ <>(pc = "done")
    /\ [](pc = "done" <=> res.status \in {200, 400, 500})
    /\ [](pc # "done" => res = NoResponse)
    /\ [][ /\ res.status # 0 => res' = res
           /\ \/ StageRank(pc') > StageRank(pc)
              \/ /\ pc' = pc
                 /\ pc \in {"step_wait", "narration_wait"}
                 /\ i' = i + 1 ]_vars

\* a request that went through every stage and was answered 200
C15_Witness ==
    /\ pc = "done"
    /\ res.status = 200
    /\ Len(calls) = 4 + totalSteps
    /\ sketchAudio # NULL

-----------------------------------------------------------------------------
-----------------------------------------------------------------------------
\* the images produced so far, in generation order
ProducedSoFar ==
    SelectSeq([k \in 1..Len(steps) |-> IF steps[k].imageUrl # NULL THEN StepData(k) ELSE NULL],
              LAMBDA d : d # NULL)

LastTwo(s) == IF Len(s) <= 2 THEN s ELSE SubSeq(s, Len(s) - 1, Len(s))

(* C17: the context window holds at most 2 step images, in generation      *)
(* order, and after any step it holds the last (at most two) images        *)
(* produced so far: the oldest one is the one evicted.                     *)
C17_WindowIsLastTwo ==
    /\ Len(previousStepsImagesData) <= 2
    /\ previousStepsImagesData = LastTwo(ProducedSoFar)

\* three images produced, one step without: the first image has been evicted
C17_Witness ==
    /\ Len(steps) = 4
    /\ steps[3].imageUrl = NULL
    /\ Len(ProducedSoFar) = 3
    /\ previousStepsImagesData = <<StepData(2), StepData(4)>>

-----------------------------------------------------------------------------
AllCallsCompleted == \A k \in 1..Len(calls) : calls[k].outcome # "pending"

\* the function and step number of the k-th call of a request
ExpectedCall(k) ==
    CASE k = 1 -> <<"generatePencilSketchFromImage", 0>>
      [] k = 2 -> <<"analyzeImage", 0>>
      [] k = 3 -> <<"determineOptimalSteps", 0>>
      [] k = 4 -> <<"generateTutorialPlan", 0>>
      [] OTHER -> <<"generateStepImage", k - 4>>

(* C18: the operations happen in the order sketch, analysis, step count,   *)
(* plan, step image 1..N, overview narration, step narration 1..N, result; *)
(* each starts only after the previous one has completed.                  *)
C18_StrictSequence ==
    /\ \A k \in 1..Len(calls) :
          /\ <<calls[k].fn, calls[k].step>> = ExpectedCall(k)
          /\ k < Len(calls) => calls[k].outcome # "pending"
    /\ sketchAudio # NULL =>
          /\ Len(calls) = 4 + totalSteps
          /\ AllCallsCompleted
          /\ Len(steps) = totalSteps
    /\ \A k \in 1..Len(steps) :
          steps[k].audio # NULL =>
              /\ sketchAudio # NULL
              /\ \A j \in 1..(k - 1) : steps[j].audio # NULL
    /\ res.status = 200 =>
          /\ sketchAudio # NULL
          /\ \A k \in 1..Len(steps) : steps[k].audio # NULL

\* the narration of the steps under way: step 1 narrated, step 2 not yet
C18_Witness ==
    /\ pc = "narration_wait"
    /\ Len(calls) = 4 + totalSteps
    /\ sketchAudio # NULL
    /\ steps[1].audio # NULL
    /\ steps[2].audio = NULL

-----------------------------------------------------------------------------
(* C19: no call is retried: the sketch, analysis, step-count and plan      *)
(* calls are issued at most once and the step-image call at most once per  *)
(* step number, so a request issues at most 4 + N calls.                   *)
(* Every call is the last of the log in the state that issues it, so the   *)
(* formula compares the last call of the log with each earlier one.        *)
C19_NoRetry ==
    /\ \A j \in 1..(Len(calls) - 1) :
          ~(calls[j].fn = calls[Len(calls)].fn /\ calls[j].step = calls[Len(calls)].step)
    /\ Len(calls) <= 4 \/ Len(calls) <= 4 + totalSteps

\* the step-count call threw, a step had no image, and 4 + N calls were issued in all
C19_Witness ==
    /\ pc = "done"
    /\ res.status = 200
    /\ calls[3].outcome = "threw"
    /\ steps[1].imageUrl = NULL
    /\ Len(calls) = 4 + totalSteps

-----------------------------------------------------------------------------
(* C20: the audio of every step record stays null until all N step-image   *)
(* calls have completed, and in every Success result the overview audio    *)
(* and the audio of every step are the constant stub token.                *)
C20_AudioAfterImagesAndConstant ==
    /\ (\E k \in 1..Len(steps) : steps[k].audio # NULL) =>
          /\ Len(steps) = totalSteps
          /\ Len(calls) = 4 + totalSteps
          /\ AllCallsCompleted
    /\ res.status = 200 =>
          /\ res.body.sketch.audio = <<"audio_placeholder.mp3">>
          /\ \A k \in 1..Len(res.body.steps) :
                res.body.steps[k].audio = <<"audio_placeholder.mp3">>

\* a Success result whose steps carry the generic texts, all narrated
C20_Witness ==
    /\ res.status = 200
    /\ res.body.steps[1].description = GenericStep(1)
    /\ res.body.steps[totalSteps].audio = <<"audio_placeholder.mp3">>
    /\ res.body.sketch.audio = <<"audio_placeholder.mp3">>

-----------------------------------------------------------------------------
(* The browser client (src/public/app.js).  One action is one run of an    *)
(* event listener between two awaits.  A tutorial is kept by its steps     *)
(* array; of a step only the number is kept (its texts and image only feed *)
(* the display).  The client takes whatever the server answers, so the     *)
(* steps array of an answer has any length from 0 to MaxTutorialSteps.     *)
(* index.html is not among the sources: the two navigation buttons are     *)
(* taken as disabled when the page is loaded.                              *)
MaxTutorialSteps == 9   \* longest steps array of a response
MaxFetching == 2        \* requests in flight at once

\* let tutorialData = null
NoTutorial == [type |-> "null"]

\* the object response.json() gives for a tutorial of n steps
TutorialOf(n) == [type |-> "object", steps |-> [k \in 1..n |-> [step |-> k]]]

\* what the fetch of /api/generate-tutorial can deliver
Responses ==
    { [kind |-> "ok", json |-> TutorialOf(n), error |-> ""] : n \in 0..MaxTutorialSteps }
        \cup { [kind |-> "error", json |-> NoTutorial, error |-> e] :
                   e \in {"Failed to generate tutorial", ""} }
        \cup { [kind |-> "threw", json |-> NoTutorial, error |-> "Failed to fetch"] }

\* the next button tested against steps.length in place of steps.length - 1
updateNavigationButtons_noLastTest(data, index, prev, next) ==
    IF data.type = "null"
    THEN [prev |-> prev, next |-> next]
    ELSE [prev |-> [disabled |-> ~(index > 0)],
          next |-> [disabled |-> ~(index < Len(data.steps))]]

\* function updateNavigationButtons(): the two buttons after the call
updateNavigationButtons(data, index, prev, next) ==
    IF data.type = "null"
    THEN [prev |-> prev, next |-> next]
    ELSE [prev |-> [disabled |-> ~(index > 0)],
          next |-> [disabled |-> ~(index < Len(data.steps) - 1)]]

\* function updateStepDisplay(): the step number shown after the call
updateStepDisplay(data, index, shown) ==
    IF data.type = "null" \/ Len(data.steps) = 0
    THEN shown
    ELSE data.steps[index + 1].step

\* errorData.error || `HTTP error! status: ${response.status}`, or the error of fetch
errorMessage(response) ==
    IF response.kind = "error" /\ response.error = "" THEN "HTTP error! status: 500"
    ELSE response.error

InitClient ==
    /\ pc = "client"
    /\ req = NoRequest
    /\ reply = NoReply
    /\ totalSteps = 0
    /\ HandlerIdle
    /\ StoreIdle
    /\ ClientIdle

\* handleFormSubmit up to the await of fetch
handleFormSubmit(imageFile, difficulty) ==
    /\ pc = "client"
    /\ fetching < MaxFetching
    /\ IF ~imageFile
       THEN /\ alerted' = "Please select an image"
            /\ UNCHANGED <<uploadSection, loadingElement, generateBtn, fetching>>
       ELSE IF difficulty = ""
       THEN /\ alerted' = "Please select a difficulty level"
            /\ UNCHANGED <<uploadSection, loadingElement, generateBtn, fetching>>
       ELSE /\ uploadSection' = [hidden |-> TRUE]
            /\ loadingElement' = [hidden |-> FALSE]
            /\ generateBtn' = [disabled |-> TRUE]
            /\ fetching' = fetching + 1
            /\ UNCHANGED alerted
    /\ UNCHANGED <<tutorialData, currentStepIndex, prevStepBtn, nextStepBtn,
                   tutorialSection, stepIndicator>>
    /\ UNCHANGED <<handlerVars, storeVars>>

\* handleFormSubmit from the return of fetch: the tutorial is loaded with
\* initializeTutorial(), or the catch block alerts and shows the form again
FetchReturn(response) ==
    /\ pc = "client"
    /\ fetching > 0
    /\ fetching' = fetching - 1
    /\ loadingElement' = [hidden |-> TRUE]
    /\ IF response.kind = "ok"
       THEN /\ tutorialData' = response.json
            /\ tutorialSection' = [hidden |-> FALSE]
            /\ currentStepIndex' = 0
            /\ stepIndicator' = updateStepDisplay(tutorialData', 0, stepIndicator)
            /\ LET buttons == updateNavigationButtons(tutorialData', 0, prevStepBtn, nextStepBtn)
               IN  /\ prevStepBtn' = buttons.prev
                   /\ nextStepBtn' = buttons.next
            /\ UNCHANGED <<uploadSection, generateBtn, alerted>>
       ELSE /\ alerted' = errorMessage(response)
            /\ uploadSection' = [hidden |-> FALSE]
            /\ generateBtn' = [disabled |-> FALSE]
            /\ UNCHANGED <<tutorialData, tutorialSection, currentStepIndex, stepIndicator,
                           prevStepBtn, nextStepBtn>>
    /\ UNCHANGED <<handlerVars, storeVars>>

\* function showPrevStep()
showPrevStep ==
    /\ pc = "client"
    /\ IF currentStepIndex > 0
       THEN /\ currentStepIndex' = currentStepIndex - 1
            /\ stepIndicator' = updateStepDisplay(tutorialData, currentStepIndex', stepIndicator)
            /\ LET buttons == updateNavigationButtons(tutorialData, currentStepIndex',
                                                      prevStepBtn, nextStepBtn)
               IN  /\ prevStepBtn' = buttons.prev
                   /\ nextStepBtn' = buttons.next
       ELSE UNCHANGED <<currentStepIndex, stepIndicator, prevStepBtn, nextStepBtn>>
    /\ UNCHANGED <<tutorialData, generateBtn, uploadSection, loadingElement,
                   tutorialSection, alerted, fetching>>
    /\ UNCHANGED <<handlerVars, storeVars>>

\* function showNextStep()
showNextStep ==
    /\ pc = "client"
    /\ IF tutorialData.type = "object" /\ currentStepIndex < Len(tutorialData.steps) - 1
       THEN /\ currentStepIndex' = currentStepIndex + 1
            /\ stepIndicator' = updateStepDisplay(tutorialData, currentStepIndex', stepIndicator)
            /\ LET buttons == updateNavigationButtons(tutorialData, currentStepIndex',
                                                      prevStepBtn, nextStepBtn)
               IN  /\ prevStepBtn' = buttons.prev
                   /\ nextStepBtn' = buttons.next
       ELSE UNCHANGED <<currentStepIndex, stepIndicator, prevStepBtn, nextStepBtn>>
    /\ UNCHANGED <<tutorialData, generateBtn, uploadSection, loadingElement,
                   tutorialSection, alerted, fetching>>
    /\ UNCHANGED <<handlerVars, storeVars>>

\* function resetTutorial(): neither button and no step display is touched
resetTutorial ==
    /\ pc = "client"
    /\ tutorialSection' = [hidden |-> TRUE]
    /\ uploadSection' = [hidden |-> FALSE]
    /\ generateBtn' = [disabled |-> FALSE]
    /\ tutorialData' = NoTutorial
    /\ currentStepIndex' = 0
    /\ UNCHANGED <<prevStepBtn, nextStepBtn, loadingElement, stepIndicator, alerted, fetching>>
    /\ UNCHANGED <<handlerVars, storeVars>>

NextClient ==
    \/ \E imageFile \in BOOLEAN : \E difficulty \in {"", "beginner"} :
           handleFormSubmit(imageFile, difficulty)
    \/ \E response \in Responses : FetchReturn(response)
    \/ showPrevStep
    \/ showNextStep
    \/ resetTutorial

SpecClient == InitClient /\ [][NextClient]_vars

-----------------------------------------------------------------------------
-----------------------------------------------------------------------------
\* a tutorial with at least one step is loaded after the step
LoadedAfter == tutorialData'.type = "object" /\ Len(tutorialData'.steps) >= 1

\* the step is a load or a reset
LoadOrReset ==
    \/ \E response \in Responses : response.kind = "ok" /\ FetchReturn(response)
    \/ resetTutorial

(* C22, as stated: after any sequence of load, previous-step, next-step    *)
(* and reset events, currentStepIndex is within [0, steps.length - 1]      *)
(* whenever a tutorial with at least one step is loaded, it is 0 right     *)
(* after a load or a reset, the previous button is disabled exactly when   *)
(* the index is 0, and the next button exactly when it is the last index.  *)
C22_ButtonsFollowIndex ==
    [][ /\ LoadedAfter => currentStepIndex' \in 0..(Len(tutorialData'.steps) - 1)
        /\ LoadOrReset => currentStepIndex' = 0
        /\ prevStepBtn'.disabled <=> (currentStepIndex' = 0)
        /\ LoadedAfter =>
              (nextStepBtn'.disabled <=> (currentStepIndex' = Len(tutorialData'.steps) - 1)) ]_vars

(* C22, amended: the index is within [0, steps.length - 1] whenever a      *)
(* tutorial with at least one step is loaded and is 0 right after a load   *)
(* or a reset; while such a tutorial is loaded the previous button is      *)
(* disabled exactly when the index is 0 and the next button exactly when   *)
(* it is the last index.  A reset leaves both buttons as they were.        *)
C22_ButtonsFollowIndexWhileLoaded ==
    [][ /\ LoadedAfter => currentStepIndex' \in 0..(Len(tutorialData'.steps) - 1)
        /\ LoadOrReset => currentStepIndex' = 0
        /\ LoadedAfter =>
              /\ prevStepBtn'.disabled <=> (currentStepIndex' = 0)
              /\ nextStepBtn'.disabled <=> (currentStepIndex' = Len(tutorialData'.steps) - 1)
        /\ resetTutorial => (prevStepBtn' = prevStepBtn /\ nextStepBtn' = nextStepBtn) ]_vars

\* a second tutorial, of 8 steps, loaded after a reset and walked to its last step
C22_Witness ==
    /\ tutorialData = TutorialOf(8)
    /\ currentStepIndex = 7
    /\ stepIndicator = 8
    /\ ~prevStepBtn.disabled
    /\ nextStepBtn.disabled
    /\ alerted = "Failed to generate tutorial"

=============================================================================
